---- MODULE Spec2Model ----
(***************************************************************************)
(* PRAiTEQx-MVP: the expert selector (keyword scoring of a query), the AI  *)
(* service with its response cache, and the FastAPI handlers over it.      *)
(*                                                                         *)
(* A Python str is a sequence of one-character strings, so that lower(),   *)
(* split(), the `in` substring test and f-string formatting are computed   *)
(* on the text itself.  A float score k/n is the pair [num, den]; scores   *)
(* are compared by cross-multiplication (the quotients that occur differ   *)
(* by at least 1/660, far above float rounding).                           *)
(***************************************************************************)
EXTENDS Integers, Sequences, FiniteSets, TLC

VARIABLES
    \* ---- expert selector, one call of analyze_query / select_experts
    words,          \* the whitespace-free tokens the query text was typed from
    query,          \* the query text
    sel_pc,         \* "ready" | "analyzed" | "selected"
    scores,         \* the dict analyze_query returned, as its items() in order
    max_experts,    \* the max_experts argument of select_experts
    selected,       \* the list select_experts returned
    \* ---- API process
    ai_service,     \* app.py global: "None" or "AIService"
    response_cache, \* AIService.response_cache: cache key -> result
    clock,          \* asyncio event loop time
    last,           \* the request handled last, what it did and what it answered
                    \* (dropped: the entries a clear removed)
    completed       \* (query, mode) pairs of the calls that returned a result since the last clear

selector_vars == <<words, query, sel_pc, scores, max_experts, selected>>
service_vars  == <<ai_service, response_cache, clock, last, completed>>
vars == <<words, query, sel_pc, scores, max_experts, selected,
          ai_service, response_cache, clock, last, completed>>

-----------------------------------------------------------------------------
(* Bounds of the model *)

\* longest query of the selector specification, in tokens
MaxWords == 6
\* largest max_experts argument tried on select_experts
MaxExpertsArg == 2
\* the event loop clock stops advancing here
MaxClock == 1

-----------------------------------------------------------------------------
(* Python str and list primitives *)

UpperCase ==
    <<"A","B","C","D","E","F","G","H","I","J","K","L","M",
      "N","O","P","Q","R","S","T","U","V","W","X","Y","Z">>

LowerCase ==
    <<"a","b","c","d","e","f","g","h","i","j","k","l","m",
      "n","o","p","q","r","s","t","u","v","w","x","y","z">>

\* the lower-case letter of each upper-case letter
LowerOf ==
    [c \in {UpperCase[i] : i \in 1..26} |->
        LowerCase[CHOOSE i \in 1..26 : UpperCase[i] = c]]

\* one character of str.lower()
char_lower(c) == IF c \in DOMAIN LowerOf THEN LowerOf[c] ELSE c

\* str.lower(): a new str of the same length
str_lower(s) == [i \in 1..Len(s) |-> char_lower(s[i])] \o <<>>

\* `kw in s` on two str: kw occurs in s as a contiguous substring
str_contains(kw, s) ==
    \E i \in 1..(Len(s) - Len(kw) + 1) :
        s[i] = kw[1] /\ SubSeq(s, i, i + Len(kw) - 1) = kw

\* len(s.split()): the number of maximal runs of non-whitespace characters
str_split_len(s) ==
    Cardinality({i \in 1..Len(s) : s[i] # " " /\ (i = 1 \/ s[i - 1] = " ")})

Min(a, b) == IF a < b THEN a ELSE b
Max(a, b) == IF a > b THEN a ELSE b

\* lst[:n]
list_slice_to(lst, n) ==
    IF n >= 0 THEN SubSeq(lst, 1, Min(n, Len(lst)))
    ELSE SubSeq(lst, 1, Max(0, Len(lst) + n))

\* a / b of two ints, and a float literal, as a fraction
Ratio(a, b) == [num |-> a, den |-> b]

\* x < y on two scores
Less(x, y) == x.num * y.den < y.num * x.den

-----------------------------------------------------------------------------
(* config/model_config.py *)

MODEL_CONFIGS ==
    {"chat_expert", "code_expert", "creative_expert",
     "quick_expert", "logic_expert", "search_expert"}

RuleCategories ==
    {"code", "programming", "creative", "writing",
     "quick", "search", "reasoning", "default"}

\* the rules table with a misspelt expert identifier
EXPERT_SELECTION_RULES_MISSPELT ==
    [c \in RuleCategories |->
        CASE c = "code"        -> <<"code_expert", "logic_expert">>
          [] c = "programming" -> <<"code_expert", "logic_expert">>
          [] c = "creative"    -> <<"creative_expert", "chat_expert">>
          [] c = "writing"     -> <<"creative_expert", "chat_expert">>
          [] c = "quick"       -> <<"quick_response_expert">>
          [] c = "search"      -> <<"search_expert", "chat_expert">>
          [] c = "reasoning"   -> <<"logic_expert", "chat_expert">>
          [] c = "default"     -> <<"chat_expert">>]

EXPERT_SELECTION_RULES ==
    [c \in RuleCategories |->
        CASE c = "code"        -> <<"code_expert", "logic_expert">>
          [] c = "programming" -> <<"code_expert", "logic_expert">>
          [] c = "creative"    -> <<"creative_expert", "chat_expert">>
          [] c = "writing"     -> <<"creative_expert", "chat_expert">>
          [] c = "quick"       -> <<"quick_expert">>
          [] c = "search"      -> <<"search_expert", "chat_expert">>
          [] c = "reasoning"   -> <<"logic_expert", "chat_expert">>
          [] c = "default"     -> <<"chat_expert">>]

-----------------------------------------------------------------------------
(* src/models/expert_selector.py *)

code_keywords ==
    << <<"c","o","d","e">>,
       <<"p","y","t","h","o","n">>,
       <<"j","a","v","a","s","c","r","i","p","t">>,
       <<"f","u","n","c","t","i","o","n">>,
       <<"c","l","a","s","s">>,
       <<"a","l","g","o","r","i","t","h","m">>,
       <<"p","r","o","g","r","a","m","m","i","n","g">>,
       <<"d","e","b","u","g">>,
       <<"e","r","r","o","r">>,
       <<"s","y","n","t","a","x">>,
       <<"a","p","i">>,
       <<"d","a","t","a","b","a","s","e">> >>

creative_keywords ==
    << <<"s","t","o","r","y">>,
       <<"p","o","e","m">>,
       <<"c","r","e","a","t","i","v","e">>,
       <<"w","r","i","t","e">>,
       <<"i","m","a","g","i","n","e">>,
       <<"f","i","c","t","i","o","n">>,
       <<"c","h","a","r","a","c","t","e","r">>,
       <<"p","l","o","t">>,
       <<"n","a","r","r","a","t","i","v","e">>,
       <<"e","s","s","a","y">>,
       <<"b","l","o","g">> >>

search_keywords ==
    << <<"s","e","a","r","c","h">>,
       <<"f","i","n","d">>,
       <<"r","e","s","e","a","r","c","h">>,
       <<"l","a","t","e","s","t">>,
       <<"c","u","r","r","e","n","t">>,
       <<"n","e","w","s">>,
       <<"i","n","f","o","r","m","a","t","i","o","n">>,
       <<"d","a","t","a">>,
       <<"f","a","c","t","s">>,
       <<"r","e","c","e","n","t">>,
       <<"t","o","d","a","y">> >>

logic_keywords ==
    << <<"a","n","a","l","y","z","e">>,
       <<"c","o","m","p","a","r","e">>,
       <<"e","x","p","l","a","i","n">>,
       <<"r","e","a","s","o","n","i","n","g">>,
       <<"l","o","g","i","c">>,
       <<"p","r","o","b","l","e","m">>,
       <<"s","o","l","u","t","i","o","n">>,
       <<"t","h","i","n","k">>,
       <<"c","a","l","c","u","l","a","t","e">>,
       <<"m","a","t","h">>,
       <<"s","t","a","t","i","s","t","i","c","s">> >>

\* keyword_hits with the scan stopping one keyword early
keyword_hits_short_scan(keywords, query_lower) ==
    Cardinality({i \in 1..(Len(keywords) - 1) :
                    str_contains(keywords[i], query_lower)})

\* sum(1 for kw in keywords if kw in query_lower)
keyword_hits(keywords, query_lower) ==
    Cardinality({i \in 1..Len(keywords) : str_contains(keywords[i], query_lower)})

\* a query of at most this many words counts as a short query
QuickWordLimit == 5

\* ExpertSelector.analyze_query: the scores dict, as items() in insertion order
analyze_query(q) ==
    LET query_lower == str_lower(q)
        code_score == Ratio(keyword_hits(code_keywords, query_lower),
                            Len(code_keywords))
        creative_score == Ratio(keyword_hits(creative_keywords, query_lower),
                                Len(creative_keywords))
        search_score == Ratio(keyword_hits(search_keywords, query_lower),
                              Len(search_keywords))
        logic_score == Ratio(keyword_hits(logic_keywords, query_lower),
                             Len(logic_keywords))
        quick_score == IF str_split_len(q) <= QuickWordLimit
                       THEN Ratio(8, 10)
                       ELSE Ratio(2, 10)
    IN  << [category |-> "code",      score |-> code_score],
           [category |-> "creative",  score |-> creative_score],
           [category |-> "search",    score |-> search_score],
           [category |-> "reasoning", score |-> logic_score],
           [category |-> "quick",     score |-> quick_score] >>

\* max(items, key=lambda x: x[1]) as the builtin computes it: one pass that
\* replaces the running maximum only by a strictly greater element
RECURSIVE max_scan(_, _, _)
max_scan(items, i, best) ==
    IF i > Len(items) THEN best
    ELSE IF Less(best.score, items[i].score)
         THEN max_scan(items, i + 1, items[i])
         ELSE max_scan(items, i + 1, best)

\* max() replacing the running maximum by an equal element too
RECURSIVE max_scan_last(_, _, _)
max_scan_last(items, i, best) ==
    IF i > Len(items) THEN best
    ELSE IF ~Less(items[i].score, best.score)
         THEN max_scan_last(items, i + 1, items[i])
         ELSE max_scan_last(items, i + 1, best)

py_max_keeping_last(items) == max_scan_last(items, 2, items[1])

py_max(items) == max_scan(items, 2, items[1])

\* the category select_experts looks up: the best one, or 'default'
select_category(items) ==
    LET best_category == py_max(items)
    IN  IF Less(best_category.score, Ratio(1, 10))
        THEN "default"
        ELSE best_category.category

\* self.rules.get(category, self.rules['default'])
rules_get(category) ==
    IF category \in DOMAIN EXPERT_SELECTION_RULES
    THEN EXPERT_SELECTION_RULES[category]
    ELSE EXPERT_SELECTION_RULES["default"]

\* ExpertSelector.select_experts
select_experts(q, n) ==
    list_slice_to(rules_get(select_category(analyze_query(q))), n)

-----------------------------------------------------------------------------
(* The queries of the selector specification: every text of at most        *)
(* MaxWords tokens of the vocabulary, joined by single spaces.             *)

TokResearchNews == <<"R","e","s","e","a","r","c","h","/","n","e","w","s">>
TokStoryPoemEssay ==
    <<"s","t","o","r","y","/","p","o","e","m","/","e","s","s","a","y">>
TokPythonApiDatabase ==
    <<"P","y","t","h","o","n","/","A","P","I","/","d","a","t","a","b","a","s","e">>
TokThe == <<"t","h","e">>

Vocabulary ==
    {TokResearchNews, TokStoryPoemEssay, TokPythonApiDatabase, TokThe}

TokenSeqs == UNION {[1..k -> Vocabulary] : k \in 0..MaxWords}

RECURSIVE join_words(_)
join_words(ws) ==
    IF Len(ws) = 0 THEN <<>>
    ELSE IF Len(ws) = 1 THEN ws[1]
    ELSE ws[1] \o <<" ">> \o join_words(Tail(ws))

\* what the scores, the selection and the last request hold before any call
NoScores == <<>>

-----------------------------------------------------------------------------
(* ExpertSelector.get_expert_prompt *)

prompt_chat_expert ==
    <<"A","s"," ","a","n"," ","i","n","t","e","l","l","i","g","e","n","t",
      " ","c","o","n","v","e","r","s","a","t","i","o","n"," ","a","s","s",
      "i","s","t","a","n","t",","," ","a","n","s","w","e","r"," ","t","h",
      "i","s"," ","t","h","o","u","g","h","t","f","u","l","l","y",":"," ">>

prompt_code_expert ==
    <<"A","s"," ","a"," ","p","r","o","g","r","a","m","m","i","n","g"," ",
      "e","x","p","e","r","t",","," ","p","r","o","v","i","d","e"," ","c",
      "l","e","a","n",","," ","w","o","r","k","i","n","g"," ","c","o","d",
      "e"," ","s","o","l","u","t","i","o","n",":"," ">>

prompt_creative_expert ==
    <<"A","s"," ","a"," ","c","r","e","a","t","i","v","e"," ","w","r","i",
      "t","i","n","g"," ","s","p","e","c","i","a","l","i","s","t",","," ",
      "c","r","a","f","t"," ","a","n"," ","e","n","g","a","g","i","n","g",
      " ","r","e","s","p","o","n","s","e",":"," ">>

prompt_quick_expert ==
    <<"P","r","o","v","i","d","e"," ","a"," ","c","o","n","c","i","s","e",
      ","," ","d","i","r","e","c","t"," ","a","n","s","w","e","r",":"," ">>

prompt_logic_expert ==
    <<"U","s","e"," ","l","o","g","i","c","a","l"," ","r","e","a","s","o",
      "n","i","n","g"," ","a","n","d"," ","a","n","a","l","y","s","i","s",
      " ","t","o"," ","s","o","l","v","e",":"," ">>

prompt_search_expert ==
    <<"R","e","s","e","a","r","c","h"," ","a","n","d"," ","p","r","o","v",
      "i","d","e"," ","f","a","c","t","u","a","l"," ","i","n","f","o","r",
      "m","a","t","i","o","n"," ","a","b","o","u","t",":"," ">>

prompt_fallback ==
    <<"A","n","s","w","e","r"," ","t","h","i","s"," ","q","u","e","r","y",
      " ","p","r","o","f","e","s","s","i","o","n","a","l","l","y",":"," ">>

\* prompts.get(expert_type, f"Answer this query professionally: {query}")
get_expert_prompt(expert_type, q) ==
    CASE expert_type = "chat_expert"     -> prompt_chat_expert \o q
      [] expert_type = "code_expert"     -> prompt_code_expert \o q
      [] expert_type = "creative_expert" -> prompt_creative_expert \o q
      [] expert_type = "quick_expert"    -> prompt_quick_expert \o q
      [] expert_type = "logic_expert"    -> prompt_logic_expert \o q
      [] expert_type = "search_expert"   -> prompt_search_expert \o q
      [] OTHER                           -> prompt_fallback \o q

-----------------------------------------------------------------------------
(* The requests of the service specification *)

QueryStory ==
    <<"W","r","i","t","e"," ","a"," ","s","t","o","r","y"," ","o","r"," ",
      "p","o","e","m"," ","a","b","o","u","t"," ","t","h","e"," ","l","a",
      "t","e","s","t"," ","n","e","w","s">>

\* Two texts whose cache keys are equal when use_multi_expert is True:
\* hashlib.md5(b"cf26cb70ab7f4f47_True") and
\* hashlib.md5(b"1e431475505d1f4d_True") both begin b99aa2fe188886f3.
QueryCollideA ==
    <<"c","f","2","6","c","b","7","0","a","b","7","f","4","f","4","7">>

QueryCollideB ==
    <<"1","e","4","3","1","4","7","5","5","0","5","d","1","f","4","d">>

ServiceQueries == {QueryStory, QueryCollideA, QueryCollideB}

-----------------------------------------------------------------------------
(* ModelManager (src/models/model_manager.py is not part of the source):   *)
(* each awaited call returns a response text or raises.                    *)

ModelOutcomes == {"answer", "raise"}

\* the str generate_response / multi_expert_consensus returns for a call
model_response(call) == <<"response to", call.method, call.experts, call.text>>

LoadedModelsOutcomes == {"list", "raise"}

\* the list get_loaded_models returns
get_loaded_models == <<>>

-----------------------------------------------------------------------------
(* src/models/ai_service.py *)

StrTrue ==
    <<"T","r","u","e">>

StrFalse ==
    <<"F","a","l","s","e">>

\* str(use_multi_expert) inside the f-string
bool_str(b) == IF b THEN StrTrue ELSE StrFalse

\* content = f"{query}_{use_multi_expert}"
cache_key_content(q, use_multi_expert) ==
    q \o <<"_">> \o bool_str(use_multi_expert)

\* hashlib.md5(content.encode()).hexdigest()[:16]: the first 16 hex digits
\* of the MD5 digest, tabulated for the contents the requests produce
md5_hexdigest_16(content) ==
    CASE content = cache_key_content(QueryStory, TRUE)
            -> "3b88d539ad6289ce"
      [] content = cache_key_content(QueryStory, FALSE)
            -> "f023d7ccc3361317"
      [] content = cache_key_content(QueryCollideA, TRUE)
            -> "b99aa2fe188886f3"
      [] content = cache_key_content(QueryCollideA, FALSE)
            -> "986b00a1caaf5a9a"
      [] content = cache_key_content(QueryCollideB, TRUE)
            -> "b99aa2fe188886f3"
      [] content = cache_key_content(QueryCollideB, FALSE)
            -> "5bfa37c550ed5bea"

\* AIService._generate_cache_key
generate_cache_key(q, use_multi_expert) ==
    md5_hexdigest_16(cache_key_content(q, use_multi_expert))

\* select_experts called with max_experts=2 whatever use_multi_expert is
SelectedExperts_always_two ==
    [q \in ServiceQueries |->
        [use_multi_expert \in BOOLEAN |-> select_experts(q, 2)]]

\* self.expert_selector.select_experts(query, max_experts=2 if ... else 1),
\* evaluated once per request text
SelectedExperts ==
    [q \in ServiceQueries |->
        [use_multi_expert \in BOOLEAN |->
            select_experts(q, IF use_multi_expert THEN 2 ELSE 1)]]

\* AIService._single_expert_response: the call made on the model manager
single_expert_call(expert_key, q) ==
    [method  |-> "generate_response",
     experts |-> <<expert_key>>,
     text    |-> get_expert_prompt(expert_key, q)]

\* AIService._multi_expert_response: the call made on the model manager
\* (specialized_prompts is computed and not used)
multi_expert_call(expert_keys, q) ==
    [method  |-> "multi_expert_consensus",
     experts |-> expert_keys,
     text    |-> q]

\* response_cache[cache_key] = result
cache_put(cache, key, result) ==
    [k \in DOMAIN cache \cup {key} |-> IF k = key THEN result ELSE cache[k]]

NoResult == [success |-> FALSE]

\* process_query with a cache bounded to two entries: a full cache is
\* emptied before the new result is stored
process_query_bounded_cache(cache, q, use_multi_expert, outcome, now) ==
    LET cache_key == generate_cache_key(q, use_multi_expert)
        selected_experts == SelectedExperts[q][use_multi_expert]
        multi == Len(selected_experts) > 1 /\ use_multi_expert
        call == IF multi
                THEN multi_expert_call(selected_experts, q)
                ELSE single_expert_call(selected_experts[1], q)
        result == [query         |-> q,
                   response      |-> model_response(call),
                   experts_used  |-> selected_experts,
                   response_type |-> IF multi THEN "multi_expert"
                                              ELSE "single_expert",
                   timestamp     |-> now,
                   success       |-> TRUE]
        room == IF Cardinality(DOMAIN cache) >= 2 THEN <<>> ELSE cache
    IN  IF cache_key \in DOMAIN cache
        THEN [cache    |-> cache,
              path     |-> "cached",
              selected |-> <<>>,
              calls    |-> <<>>,
              result   |-> cache[cache_key]]
        ELSE IF outcome = "raise"
        THEN [cache    |-> cache,
              path     |-> "raised",
              selected |-> selected_experts,
              calls    |-> <<call>>,
              result   |-> NoResult]
        ELSE [cache    |-> cache_put(room, cache_key, result),
              path     |-> "generated",
              selected |-> selected_experts,
              calls    |-> <<call>>,
              result   |-> result]

\* process_query storing a failure: when the model manager raises, an entry
\* is left under the key before the exception propagates
process_query_caching_failure(cache, q, use_multi_expert, outcome, now) ==
    LET cache_key == generate_cache_key(q, use_multi_expert)
        selected_experts == SelectedExperts[q][use_multi_expert]
        multi == Len(selected_experts) > 1 /\ use_multi_expert
        call == IF multi
                THEN multi_expert_call(selected_experts, q)
                ELSE single_expert_call(selected_experts[1], q)
        result == [query         |-> q,
                   response      |-> model_response(call),
                   experts_used  |-> selected_experts,
                   response_type |-> IF multi THEN "multi_expert"
                                              ELSE "single_expert",
                   timestamp     |-> now,
                   success       |-> outcome # "raise"]
    IN  IF cache_key \in DOMAIN cache
        THEN [cache    |-> cache,
              path     |-> "cached",
              selected |-> <<>>,
              calls    |-> <<>>,
              result   |-> cache[cache_key]]
        ELSE IF outcome = "raise"
        THEN [cache    |-> cache_put(cache, cache_key, result),
              path     |-> "raised",
              selected |-> selected_experts,
              calls    |-> <<call>>,
              result   |-> NoResult]
        ELSE [cache    |-> cache_put(cache, cache_key, result),
              path     |-> "generated",
              selected |-> selected_experts,
              calls    |-> <<call>>,
              result   |-> result]

\* AIService.process_query on the cache `cache`, at loop time `now`, when the
\* model manager ends the awaited call with `outcome`.  Gives the cache
\* afterwards, how the call ended ("cached", "generated", "raised"), the
\* model manager calls made and the result returned.
\* _generate_cache_key(query, use_multi_expert), evaluated once per request
CacheKeyOf ==
    [q \in ServiceQueries |->
        [m \in BOOLEAN |-> generate_cache_key(q, m)]]

\* the model manager call of _multi_expert_response or
\* _single_expert_response, evaluated once per request
CallOf ==
    [q \in ServiceQueries |->
        [m \in BOOLEAN |->
            LET se == SelectedExperts[q][m]
            IN  IF Len(se) > 1 /\ m THEN multi_expert_call(se, q)
                ELSE single_expert_call(se[1], q)]]

\* what the model manager answers to that call
ResponseOf ==
    [q \in ServiceQueries |->
        [m \in BOOLEAN |-> model_response(CallOf[q][m])]]

process_query(cache, q, use_multi_expert, outcome, now) ==
    LET cache_key == CacheKeyOf[q][use_multi_expert]
        selected_experts == SelectedExperts[q][use_multi_expert]
        multi == Len(selected_experts) > 1 /\ use_multi_expert
        call == CallOf[q][use_multi_expert]
        result == [query         |-> q,
                   response      |-> ResponseOf[q][use_multi_expert],
                   experts_used  |-> selected_experts,
                   response_type |-> IF multi THEN "multi_expert"
                                              ELSE "single_expert",
                   timestamp     |-> now,
                   success       |-> TRUE]
    IN  IF cache_key \in DOMAIN cache
        THEN [cache    |-> cache,
              path     |-> "cached",
              selected |-> <<>>,
              calls    |-> <<>>,
              result   |-> cache[cache_key]]
        ELSE IF outcome = "raise"
        THEN [cache    |-> cache,
              path     |-> "raised",
              selected |-> selected_experts,
              calls    |-> <<call>>,
              result   |-> NoResult]
        ELSE [cache    |-> cache_put(cache, cache_key, result),
              path     |-> "generated",
              selected |-> selected_experts,
              calls    |-> <<call>>,
              result   |-> result]

\* AIService.get_system_status
get_system_status(cache) ==
    [system            |-> "PRAiTEQx Multi-Expert AI",
     version           |-> "1.0.0-MVP",
     loaded_models     |-> get_loaded_models,
     available_experts |-> MODEL_CONFIGS,
     cache_size        |-> Cardinality(DOMAIN cache),
     status            |-> "operational"]

\* clear_cache rebinding nothing: the dict is left as it is
clear_cache_keeping_entries(cache) == cache

\* AIService.clear_cache: self.response_cache.clear()
clear_cache(cache) == <<>>

-----------------------------------------------------------------------------
(* src/api/app.py *)

\* QueryResponse(...) with the mode of the reply fixed
query_response_fixed_type(result) ==
    [success       |-> result.success,
     query         |-> result.query,
     response      |-> result.response,
     experts_used  |-> result.experts_used,
     response_type |-> "multi_expert",
     timestamp     |-> result.timestamp]

\* QueryResponse(...) built from the service result; processing_time is the
\* wall-clock duration of the request and is not part of the model
query_response(result) ==
    [success       |-> result.success,
     query         |-> result.query,
     response      |-> result.response,
     experts_used  |-> result.experts_used,
     response_type |-> result.response_type,
     timestamp     |-> result.timestamp]

\* raise HTTPException(status_code=500, ...)
http_error == [status_code |-> 500]

\* get_ai_service: the global after the call
get_ai_service(service) == "AIService"

\* QueryRequest.max_experts: Optional[int] = 2
DefaultMaxExperts == 2

\* the max_experts values a client sends: below the default, and the default
RequestMaxExperts == 1..DefaultMaxExperts

NoRequest ==
    [op |-> "none", query |-> <<>>, use_multi_expert |-> FALSE,
     request_max_experts |-> DefaultMaxExperts,
     path |-> "none", selected |-> <<>>, calls |-> <<>>,
     result |-> NoResult, status_code |-> 0, reply |-> NoResult,
     dropped |-> 0]

-----------------------------------------------------------------------------
(* The selector specification: one query, analysed and then routed *)

InitService ==
    /\ ai_service = "None"
    /\ response_cache = <<>>
    /\ clock = 0
    /\ last = NoRequest
    /\ completed = {}

InitSelector ==
    /\ words \in TokenSeqs
    /\ query = join_words(words)
    /\ sel_pc = "ready"
    /\ scores = NoScores
    /\ max_experts = 0
    /\ selected = <<>>
    /\ InitService

AnalyzeQuery ==
    /\ sel_pc = "ready"
    /\ scores' = analyze_query(query)
    /\ sel_pc' = "analyzed"
    /\ UNCHANGED <<words, query, max_experts, selected>>
    /\ UNCHANGED service_vars

SelectExperts ==
    /\ sel_pc = "analyzed"
    /\ \E n \in 1..MaxExpertsArg :
        /\ max_experts' = n
        /\ selected' = select_experts(query, n)
    /\ sel_pc' = "selected"
    /\ UNCHANGED <<words, query, scores>>
    /\ UNCHANGED service_vars

NextSelector == AnalyzeQuery \/ SelectExperts

SpecSelector == InitSelector /\ [][NextSelector]_vars

-----------------------------------------------------------------------------
(* The service specification: the API process handling one request at a    *)
(* time, each handler running to its reply                                 *)

Init ==
    /\ words = <<>>
    /\ query = <<>>
    /\ sel_pc = "idle"
    /\ scores = NoScores
    /\ max_experts = 0
    /\ selected = <<>>
    /\ InitService

\* @app.on_event("startup")
Startup ==
    /\ ai_service = "None"
    /\ ai_service' = get_ai_service(ai_service)
    /\ UNCHANGED <<response_cache, clock, last, completed>>
    /\ UNCHANGED selector_vars

\* the event loop's clock advances between requests
Tick ==
    /\ clock < MaxClock
    /\ clock' = clock + 1
    /\ UNCHANGED <<ai_service, response_cache, last, completed>>
    /\ UNCHANGED selector_vars

\* POST /query: the handler hands request.query and request.use_multi_expert
\* to service.process_query; request.max_experts is read nowhere
PostQuery ==
    \E q \in ServiceQueries, use_multi_expert \in BOOLEAN,
       outcome \in ModelOutcomes :
        LET done == process_query(response_cache, q, use_multi_expert,
                                  outcome, clock)
            ok == done.path # "raised"
        IN  /\ ai_service' = get_ai_service(ai_service)
            /\ response_cache' = done.cache
            /\ completed' = IF ok
                            THEN completed \cup {<<q, use_multi_expert>>}
                            ELSE completed
            /\ \E request_max_experts \in RequestMaxExperts :
                last' = [op |-> "query",
                         query |-> q,
                         use_multi_expert |-> use_multi_expert,
                         request_max_experts |-> request_max_experts,
                         path |-> done.path,
                         selected |-> done.selected,
                         calls |-> done.calls,
                         result |-> done.result,
                         status_code |-> IF ok THEN 200 ELSE 500,
                         reply |-> IF ok THEN query_response(done.result)
                                         ELSE http_error,
                         dropped |-> 0]
            /\ UNCHANGED clock
            /\ UNCHANGED selector_vars

\* GET /status
GetStatus ==
    \E outcome \in LoadedModelsOutcomes :
        /\ ai_service' = get_ai_service(ai_service)
        /\ last' = [NoRequest EXCEPT
                        !.op = "status",
                        !.path = IF outcome = "raise" THEN "raised" ELSE "done",
                        !.status_code = IF outcome = "raise" THEN 500 ELSE 200,
                        !.reply = IF outcome = "raise" THEN http_error
                                  ELSE get_system_status(response_cache)]
        /\ UNCHANGED <<response_cache, clock, completed>>
        /\ UNCHANGED selector_vars

\* POST /clear-cache
PostClearCache ==
    /\ ai_service' = get_ai_service(ai_service)
    /\ response_cache' = clear_cache(response_cache)
    /\ completed' = {}
    /\ last' = [NoRequest EXCEPT
                    !.op = "clear",
                    !.path = "done",
                    !.status_code = 200,
                    !.reply = [message |-> "Cache cleared successfully"],
                    !.dropped = Cardinality(DOMAIN response_cache)]
    /\ UNCHANGED clock
    /\ UNCHANGED selector_vars

Next == Startup \/ Tick \/ PostQuery \/ GetStatus \/ PostClearCache

Spec == Init /\ [][Next]_vars

-----------------------------------------------------------------------------
(* Properties of the expert selector, checked under SpecSelector *)

ScoreOrder == <<"code", "creative", "search", "reasoning", "quick">>

KeywordLists ==
    <<code_keywords, creative_keywords, search_keywords, logic_keywords>>

\* the keywords of list c that occur in each token of the vocabulary
TokenKeywords ==
    [t \in Vocabulary |->
        [c \in 1..4 |->
            {i \in 1..Len(KeywordLists[c]) :
                str_contains(KeywordLists[c][i], str_lower(t))}]]

\* the keywords of list c present in a text typed from the tokens ws
keywords_present(c, ws) ==
    UNION {TokenKeywords[ws[t]][c] : t \in 1..Len(ws)}

\* C1: select_experts returns the first min(max_experts, n) entries, in
\* table order, of the rule of the category with the highest analyze_query
\* score, a tie for the highest score going to the earliest category in the
\* order code, creative, search, reasoning, quick.
C1_SelectsRuleOfBestCategory ==
    sel_pc = "selected" =>
        /\ [i \in 1..Len(scores) |-> scores[i].category] = ScoreOrder
        /\ \E i \in 1..Len(scores) :
            /\ \A j \in 1..Len(scores) :
                ~Less(scores[i].score, scores[j].score)
            /\ \A j \in 1..(i - 1) : Less(scores[j].score, scores[i].score)
            /\ LET rule == EXPERT_SELECTION_RULES[scores[i].category]
               IN  /\ Len(selected) = Min(max_experts, Len(rule))
                   /\ \A k \in 1..Len(selected) : selected[k] = rule[k]

\* a tie for the highest score (creative and search, both above quick), and
\* a rule cut to one expert
C1_Witness ==
    /\ sel_pc = "selected"
    /\ scores[2].score = scores[3].score
    /\ Less(scores[5].score, scores[2].score)
    /\ Less(scores[1].score, scores[2].score)
    /\ max_experts = 1
    /\ selected = <<"creative_expert">>

\* C2 as stated: each of the five scores is the share of its category's
\* keywords present in the query, so the scores of two queries in which the
\* same keywords are present are the same.
ShortTokenSeqs == UNION {[1..k -> Vocabulary] : k \in 0..1}

ShortScores == [ws \in ShortTokenSeqs |-> analyze_query(join_words(ws))]

C2_ScoresDependOnKeywordsOnly ==
    sel_pc = "analyzed" =>
        \A ws \in ShortTokenSeqs :
            (\A c \in 1..4 : keywords_present(c, ws) = keywords_present(c, words))
                => scores = ShortScores[ws]

\* C2 amended: analyze_query returns exactly the five scores code, creative,
\* search, reasoning, quick, in this order; each of the first four is the
\* number of the category's keywords that occur in the lower-cased query
\* divided by the size of the keyword list; quick is 0.8 for a query of at
\* most five words and 0.2 for a longer one; every score lies in [0, 1].
C2_KeywordSharesAndQuickByLength ==
    sel_pc = "analyzed" =>
        /\ [i \in 1..Len(scores) |-> scores[i].category] = ScoreOrder
        /\ \A c \in 1..4 :
            scores[c].score =
                Ratio(Cardinality(keywords_present(c, words)),
                      Len(KeywordLists[c]))
        /\ scores[5].score = IF Len(words) <= 5 THEN Ratio(8, 10)
                                                ELSE Ratio(2, 10)
        /\ \A i \in 1..Len(scores) :
            /\ 0 <= scores[i].score.num
            /\ scores[i].score.num <= scores[i].score.den

\* a long query: quick is 0.2 while the keywords score above it
C2_Witness ==
    /\ sel_pc = "analyzed"
    /\ Len(words) > 5
    /\ scores[5].score = Ratio(2, 10)
    /\ scores[1].score = Ratio(3, 12)
    /\ scores[3].score = Ratio(4, 11)

BestScoreNeverLow ==
    sel_pc = "selected" =>
        \E i \in 1..Len(scores) : ~Less(scores[i].score, Ratio(1, 10))

-----------------------------------------------------------------------------
(* Properties of the AI service and the API, checked under Spec *)

\* the cache keys of the requests answered since the last clear
CompletedKeys == {generate_cache_key(p[1], p[2]) : p \in completed}

\* C3: process_query returns a stored result, without selecting experts or
\* calling the model manager, if and only if an earlier process_query call
\* with the same query and the same use_multi_expert value completed
\* successfully since the last clear_cache; the value returned is then the
\* stored result of that request.
C3_CachedIffSameRequestCompleted ==
    [][PostQuery =>
        /\ (last'.path = "cached"
                <=> <<last'.query, last'.use_multi_expert>> \in completed)
        /\ (last'.path = "cached" =>
                /\ last'.calls = <<>>
                /\ last'.result.query = last'.query)]_vars

C5_FailureLeavesNoTrace ==
    /\ [][last'.path = "raised" /\ PostQuery =>
            response_cache' = response_cache]_vars
    /\ [](last.op = "query" /\ last.path = "raised" =>
            /\ last.status_code = 500
            /\ last.reply = http_error
            /\ Len(last.calls) = 1
            /\ generate_cache_key(last.query, last.use_multi_expert)
                    \notin DOMAIN response_cache
            /\ process_query(response_cache, last.query,
                             last.use_multi_expert, "answer", clock).path
                    = "generated")

\* a request failed while other results were cached
C5_Witness ==
    /\ last.op = "query"
    /\ last.path = "raised"
    /\ last.status_code = 500
    /\ Cardinality(DOMAIN response_cache) >= 2

ReplyFields ==
    {"success", "query", "response", "experts_used", "response_type",
     "timestamp"}

\* C6: the API keeps no state of its own between requests (the service
\* object, once created, stays), and the success, query, response,
\* experts_used, response_type and timestamp of every POST /query reply are
\* those of the result process_query returned for the request.
C6_ReplyIsServiceResult ==
    /\ [][ai_service = "AIService" => ai_service' = "AIService"]_vars
    /\ [](last.op = "query" /\ last.status_code = 200 =>
            /\ DOMAIN last.reply = ReplyFields
            /\ \A f \in ReplyFields : last.reply[f] = last.result[f])
    /\ [][last'.status_code = 200 /\ PostQuery =>
            \E outcome \in ModelOutcomes :
                last'.result =
                    process_query(response_cache, last'.query,
                                  last'.use_multi_expert, outcome,
                                  clock).result]_vars

\* a reply served from the cache, carrying the original timestamp and the
\* single-expert mode
C6_Witness ==
    /\ last.op = "query"
    /\ last.status_code = 200
    /\ last.path = "cached"
    /\ last.reply.timestamp < clock
    /\ last.reply.response_type = "single_expert"

\* a list of one or two distinct identifiers of MODEL_CONFIGS
ValidExperts(experts) ==
    /\ Len(experts) >= 1
    /\ Len(experts) <= 2
    /\ \A i \in 1..Len(experts) : experts[i] \in MODEL_CONFIGS
    /\ \A i, j \in 1..Len(experts) : experts[i] = experts[j] => i = j

\* C7: in every result of process_query, fresh or cached, experts_used is a
\* non-empty list of at most two distinct keys of MODEL_CONFIGS (so is every
\* rule a score category or 'default' can select), and selected_experts[0]
\* is defined whenever process_query selects.
C7_ExpertsUsedValid ==
    /\ \A c \in {ScoreOrder[i] : i \in 1..Len(ScoreOrder)} \cup {"default"} :
            ValidExperts(rules_get(c))
    /\ \A k \in DOMAIN response_cache :
            ValidExperts(response_cache[k].experts_used)
    /\ (last.op = "query" /\ last.path # "raised" =>
            ValidExperts(last.result.experts_used))
    /\ (last.op = "query" /\ last.path # "cached" =>
            /\ ValidExperts(last.selected)
            /\ last.calls[1].experts[1] = last.selected[1])

\* results with one and with two experts are cached
C7_Witness ==
    /\ \E k \in DOMAIN response_cache :
            response_cache[k].experts_used = <<"quick_expert">>
    /\ \E k \in DOMAIN response_cache :
            response_cache[k].experts_used
                = <<"creative_expert", "chat_expert">>
    /\ last.op = "query"
    /\ last.path = "generated"

\* C8: when clear_cache has completed the cache holds no entry and the loop
\* clock is as before; get_system_status reports cache_size 0 as long as no
\* process_query has completed since; and the next process_query of any
\* request, cached before the clear or not, is not served from the cache.
C8_ClearEmptiesCache ==
    /\ [][PostClearCache =>
            /\ DOMAIN response_cache' = {}
            /\ clock' = clock]_vars
    /\ [](last.op = "clear" => DOMAIN response_cache = {})
    /\ [](last.op = "status" /\ last.status_code = 200 /\ completed = {} =>
            last.reply.cache_size = 0)
    /\ [][completed = {} /\ PostQuery => last'.path # "cached"]_vars

\* a clear that removed entries
C8_Witness ==
    /\ last.op = "clear"
    /\ last.dropped >= 2
    /\ response_cache = <<>>

\* C10: the text the model manager is called with is the specialized prompt
\* of the first selected expert, on the multi-expert path as on the
\* single-expert path.
C10_ModelCalledWithFirstPrompt ==
    last.op = "query" /\ last.path # "cached" =>
        \A i \in 1..Len(last.calls) :
            last.calls[i].text
                = get_expert_prompt(last.selected[1], last.query)

\* C11: the reply to a POST /query request lists at most as many experts as
\* the request's max_experts field allows.
C11_MaxExpertsBoundsExpertsUsed ==
    (last.op = "query" /\ last.status_code = 200)
        => Len(last.reply.experts_used) <= last.request_max_experts

\* the whole expert list of the rule select_experts picks for a request text,
\* before the max_experts slice
SelectedRule ==
    [q \in ServiceQueries |-> rules_get(select_category(analyze_query(q)))]

\* C12: a freshly generated result is "multi_expert" exactly when
\* use_multi_expert is true and the selected category's rule lists more than
\* one expert, and then multi_expert_consensus is called once with both
\* experts; otherwise it is "single_expert" and generate_response is called
\* once with only the first selected expert; with use_multi_expert false,
\* experts_used has exactly one entry.
C12_ResponseTypeFollowsModeAndRule ==
    last.path = "generated" =>
        LET rule == SelectedRule[last.query]
            multi == last.use_multi_expert /\ Len(rule) > 1
        IN  /\ (last.result.response_type = "multi_expert") <=> multi
            /\ Len(last.calls) = 1
            /\ multi =>
                    /\ last.calls[1].method = "multi_expert_consensus"
                    /\ last.calls[1].experts = <<rule[1], rule[2]>>
                    /\ last.result.experts_used = <<rule[1], rule[2]>>
            /\ ~multi =>
                    /\ last.result.response_type = "single_expert"
                    /\ last.calls[1].method = "generate_response"
                    /\ last.calls[1].experts = <<rule[1]>>
            /\ ~last.use_multi_expert => Len(last.result.experts_used) = 1

\* both kinds of result have been generated: the last request was answered
\* by a two-expert consensus, and a single-expert result of a rule with two
\* experts sits in the cache
C12_Witness ==
    /\ last.path = "generated"
    /\ last.use_multi_expert
    /\ last.result.response_type = "multi_expert"
    /\ Len(last.calls) = 1
    /\ last.calls[1].method = "multi_expert_consensus"
    /\ Len(last.calls[1].experts) = 2
    /\ \E k \in DOMAIN response_cache :
            /\ response_cache[k].response_type = "single_expert"
            /\ Len(response_cache[k].experts_used) = 1
            /\ Len(SelectedRule[response_cache[k].query]) > 1

====
